---- MODULE Spec2Model ----
(***************************************************************************)
(* The SSE session registry and message router of the Sourcegraph MCP      *)
(* server (dist/http-server.js, main): the `connections` Map, the GET /sse *)
(* handler with its suspension at `await server.connect(transport)`, the   *)
(* req "close" listener it registers after that await, and the             *)
(* POST /messages handler.                                                 *)
(*                                                                         *)
(* A connection c \in Conns is one GET /sse request; its transport handle  *)
(* (the SSEServerTransport built on its response) is identified with c.    *)
(* The absent query/body field (undefined or "", both falsy in JavaScript) *)
(* is the empty string.                                                    *)
(***************************************************************************)
EXTENDS Integers, Sequences, FiniteSets, TLC

\* ---------------------------------------------------------------- bounds
\* Number of GET /sse requests that arrive, numbered in arrival order.
MaxConns == 2

Conns == 1..MaxConns

\* Session identifiers clients put in ?sessionId= of their own accord.
ClientIds == {"a", "b"}

\* No handle: the value of `target` when handlePostMessage was called on none.
NoHandle == 0

\* undefined / "" in a query or body field.
Absent == ""

\* POST /messages requests one handle is handling at once, at most (cap on
\* what clients send; the handler itself has no limit).
MaxInflight == 2

\* Longest query a client sends, in words.
MaxQueryLen == 2

VARIABLES
    connections,  \* the Map, in insertion order: sequence of [id, h]
    pc,           \* pc[c]: where GET /sse handler of c stands
    sid,          \* sid[c]: the sessionId constant of c's handler
    sockOpen,     \* sockOpen[c]: c's HTTP connection is open (no "close" yet)
    removed,      \* handles that stood under a close listener's id when it ran (history)
    last,         \* the last event and its outcome (history)
    inflight,     \* inflight[c]: handlePostMessage calls on c not yet settled
    call,         \* the tool invocation under way or last finished
    tr,           \* the query translation under way or last finished
    built         \* the query a search tool or route has built

\* State of the handlers the registry specifications keep at rest.
auxVars == <<inflight, call, tr, built>>

vars == <<connections, pc, sid, sockOpen, removed, last, inflight, call, tr, built>>

\* ------------------------------------------------- the Map (insertion order)
MapSize(m) == Len(m)

MapHas(m, k) == \E i \in 1..Len(m) : m[i].id = k

MapGet(m, k) == (CHOOSE e \in {m[i] : i \in 1..Len(m)} : e.id = k).h

\* Mutant: the entry is written before the transport variable holds the new
\* object, so the value stored is undefined.
MapSetUnbuilt(m, k, v) ==
    IF MapHas(m, k)
    THEN [i \in 1..Len(m) |-> IF m[i].id = k THEN [id |-> k, h |-> NoHandle] ELSE m[i]]
    ELSE Append(m, [id |-> k, h |-> NoHandle])

\* Map.prototype.set: an existing key keeps its place and takes the new value.
MapSet(m, k, v) ==
    IF MapHas(m, k)
    THEN [i \in 1..Len(m) |-> IF m[i].id = k THEN [id |-> k, h |-> v] ELSE m[i]]
    ELSE Append(m, [id |-> k, h |-> v])

MapDelete(m, k) == SelectSeq(m, LAMBDA e : e.id # k)

\* connections.values().next().value
MapFirst(m) == m[1].h

\* ------------------------------------------------------------ GET /sse
\* `${Math.random()...}-${Date.now()...}`: a fresh identifier per request.
GenId(c) == "g" \o ToString(c)

\* const sessionId = req.query.sessionId || <synthesized>
SessionIdFor(requested, c) == IF requested # Absent THEN requested ELSE GenId(c)

Arrived(c) == pc[c] # "idle"

\* Identifiers the server has minted or accepted so far; each was announced to
\* its client in the endpoint event (/messages?sessionId=<id>).
Issued == {sid[c] : c \in {d \in Conns : Arrived(d)}}

NoEvent == [op |-> "none", conn |-> NoHandle, sid |-> Absent, status |-> 0,
            error |-> "", target |-> NoHandle, afterOpen |-> NoHandle,
            threw |-> FALSE, sent |-> FALSE]

\* The handler up to its suspension: mint the id, build the transport, store
\* it, call server.connect and await it.
OpenSession(c, requested) ==
    /\ pc[c] = "idle"
    /\ \A d \in Conns : d < c => Arrived(d)
    /\ LET id == SessionIdFor(requested, c) IN
       /\ sid' = [sid EXCEPT ![c] = id]
       /\ connections' = MapSet(connections, id, c)
       /\ last' = [NoEvent EXCEPT !.op = "open", !.conn = c, !.sid = id]
    /\ pc' = [pc EXCEPT ![c] = "connecting"]
    /\ sockOpen' = [sockOpen EXCEPT ![c] = TRUE]
    /\ UNCHANGED removed

\* server.connect resolved: transport.start() has put the response in
\* streaming mode; the handler leaves the try and registers the close listener.
ConnectSuccess(c) ==
    /\ pc[c] = "connecting"
    /\ pc' = [pc EXCEPT ![c] = "connected"]
    /\ last' = [NoEvent EXCEPT !.op = "connected", !.conn = c, !.sid = sid[c]]
    /\ UNCHANGED <<connections, sid, sockOpen, removed>>

\* server.connect rejected: the catch block answers 500 unless the headers
\* were already sent, then the close listener is registered.
ConnectFailure(c, headersSent) ==
    /\ pc[c] = "connecting"
    /\ pc' = [pc EXCEPT ![c] = "failed"]
    /\ last' = [NoEvent EXCEPT !.op = "failed", !.conn = c, !.sid = sid[c],
                               !.status = IF headersSent THEN 0 ELSE 500,
                               !.threw = TRUE, !.sent = headersSent]
    /\ UNCHANGED <<connections, sid, sockOpen, removed>>

\* The listener exists once the handler has got past the await.
ListenerRegistered(c) == pc[c] \in {"connected", "failed"}

\* Mutant: a close for an absent identifier evicts the oldest entry.
CloseSessionEvictsOldest(m, id) ==
    IF MapHas(m, id) THEN MapDelete(m, id)
    ELSE IF Len(m) > 0 THEN Tail(m) ELSE m

\* Mutant: the listener finds the entry and leaves it in place.
CloseSessionKeepsEntry(m, id) == m

\* req.on("close", ...): if (connections.has(sessionId)) connections.delete(sessionId)
CloseSession(m, id) == IF MapHas(m, id) THEN MapDelete(m, id) ELSE m

\* The request's "close" event.  It is emitted once; a listener registered
\* after it never runs.
ClientDisconnect(c) ==
    /\ Arrived(c)
    /\ sockOpen[c]
    /\ sockOpen' = [sockOpen EXCEPT ![c] = FALSE]
    /\ IF ListenerRegistered(c)
       THEN /\ connections' = CloseSession(connections, sid[c])
            /\ removed' = IF MapHas(connections, sid[c])
                          THEN removed \cup {MapGet(connections, sid[c])}
                          ELSE removed
       ELSE UNCHANGED <<connections, removed>>
    /\ last' = [NoEvent EXCEPT !.op = "close", !.conn = c, !.sid = sid[c],
                               !.target = IF ListenerRegistered(c)
                                             /\ MapHas(connections, sid[c])
                                          THEN MapGet(connections, sid[c])
                                          ELSE NoHandle]
    /\ pc' = [pc EXCEPT ![c] = IF ListenerRegistered(c) THEN "closed" ELSE @]
    /\ UNCHANGED sid

\* ------------------------------------------------------- POST /messages
\* const sessionId = req.body.connectionId || req.query.sessionId
ResolveSessionId(bodyConnectionId, querySessionId) ==
    IF bodyConnectionId # Absent THEN bodyConnectionId ELSE querySessionId

\* http-server.ts: const sessionId = req.query.sessionId as string
ResolveSessionIdTs(bodyConnectionId, querySessionId) == querySessionId

\* Mutant: the identifier is ignored, every message takes the fallback.
RouteOutcomeAlwaysFirst(m, id) ==
    IF MapSize(m) = 0
    THEN [status |-> 400, error |-> "No active connections", target |-> NoHandle]
    ELSE [status |-> 0, error |-> "", target |-> MapFirst(m)]

\* Mutant: no size check; on an empty Map the first value is undefined and
\* the call on it throws into the catch block, which answers 500.
RouteOutcomeNoSizeCheck(m, id) ==
    IF id = Absent \/ ~MapHas(m, id)
    THEN IF MapSize(m) = 0
         THEN [status |-> 500, error |-> "Internal server error", target |-> NoHandle]
         ELSE [status |-> 0, error |-> "", target |-> MapFirst(m)]
    ELSE [status |-> 0, error |-> "", target |-> MapGet(m, id)]

\* The handle handlePostMessage is called on, or the 400 answer.
RouteOutcome(m, id) ==
    IF id = Absent \/ ~MapHas(m, id)
    THEN IF MapSize(m) = 0
         THEN [status |-> 400, error |-> "No active connections", target |-> NoHandle]
         ELSE [status |-> 0, error |-> "", target |-> MapFirst(m)]
    ELSE [status |-> 0, error |-> "", target |-> MapGet(m, id)]

\* What becomes of the awaited call on the handle: it returns (the transport
\* has answered the POST itself), or it throws before or after the response
\* headers went out.
HandleResults == {"ok", "throwsUnsent", "throwsSent"}

\* Mutant: the catch block answers 500 without looking at res.headersSent.
HandledStatusAlways500(o, result) ==
    IF o.target = NoHandle \/ result = "ok" THEN o
    ELSE [o EXCEPT !.status = 500, !.error = "Internal server error"]

\* The catch block: 500 unless res.headersSent, else the error is only logged.
\* status 0: the router wrote no status of its own.
HandledStatus(o, result) ==
    IF o.target = NoHandle \/ result = "ok" THEN o
    ELSE IF result = "throwsUnsent"
         THEN [o EXCEPT !.status = 500, !.error = "Internal server error"]
    ELSE [o EXCEPT !.error = "logged"]

\* What a client puts in ?sessionId= of POST /messages, and in connectionId of
\* its body.
QueryIds == {Absent} \cup ClientIds \cup Issued

BodyIds == {Absent} \cup ClientIds

RouteMessage(bodyConnectionId, querySessionId, result) ==
    /\ LET id == ResolveSessionId(bodyConnectionId, querySessionId)
           o  == HandledStatus(RouteOutcome(connections, id), result)
       IN last' = [op |-> "route", conn |-> NoHandle, sid |-> id,
                   status |-> o.status, error |-> o.error, target |-> o.target,
                   afterOpen |-> IF last.op = "open" THEN last.conn ELSE NoHandle,
                   threw |-> (o.target # NoHandle /\ result # "ok"),
                   sent |-> (o.target # NoHandle /\ result = "throwsSent")]
    /\ UNCHANGED <<connections, pc, sid, sockOpen, removed>>

\* ------------------------------------------------------- tool handlers
\* Tools registered by createServer and addTestTools.
Tools == {"echo", "search-code", "search-commits", "search-diffs",
          "search-github-repos", "natural-search", "test-nl-search",
          "get-definition"}

\* The handler opens with `if (!effectiveUrl || !effectiveToken) return <error>`.
CredChecked(name) == name \notin {"echo", "test-nl-search"}

\* The handler awaits a request to the search platform.
Searches(name) == name \notin {"echo", "test-nl-search"}

\* The handler calls analyzeQuery, which calls convertQueryToSourcegraphSyntax.
UsesAnalyze(name) == name \in {"natural-search", "test-nl-search"}

\* What the awaited search request comes to: a body with data, with errors,
\* with both, a rejected promise, or a body without data.search.results.
SearchOutcomes == {"data", "errors", "errorsWithData", "rejects", "malformed"}

\* A tool response: `blocks` text blocks in content, the isError flag (absent
\* is FALSE), what the text holds, and whether the handler threw instead.
Response(text, isErr) ==
    [blocks |-> 1, isError |-> isErr, text |-> text, escaped |-> FALSE]

NoResponse == [blocks |-> 0, isError |-> FALSE, text |-> "none", escaped |-> FALSE]

\* Mutant: the handler has no catch block, the exception leaves it.
CatchBlockRethrows ==
    [blocks |-> 0, isError |-> FALSE, text |-> "none", escaped |-> TRUE]

\* catch (error) { return { content: [{ type: "text", text: `Error ...` }], isError: true } }
CatchBlock == Response("thrown", TRUE)

\* The handler after the await: response.errors is answered as an error,
\* formatting a body without results throws into the catch block.
SearchResponse(outcome) ==
    CASE outcome = "data" -> Response("results", FALSE)
      [] outcome \in {"errors", "errorsWithData"} -> Response("upstream", TRUE)
      [] OTHER -> CatchBlock

\* Why the invocation failed (none: it did not), independent of the response.
SearchCause(outcome) ==
    CASE outcome = "data" -> "none"
      [] outcome \in {"errors", "errorsWithData"} -> "upstream"
      [] OTHER -> "thrown"

\* analysis: the promise analyzeQuery returned (none: not called); builtFrom:
\* what the handler read its search type, text and filters from; stdout,
\* stderr: the diagnostic lines the invocation wrote; message, said: the
\* argument and the text of echo.
NoCall == [name |-> "none", conn |-> NoHandle, sid |-> Absent, phase |-> "idle",
           url |-> FALSE, token |-> FALSE, llm |-> FALSE, net |-> {},
           outcome |-> "none", cause |-> "none", resp |-> NoResponse,
           analysis |-> "none", builtFrom |-> "none",
           stdout |-> {}, stderr |-> {}, message |-> Absent, said |-> Absent]

\* Mutant: echo answers with the greeting alone.
EchoTextGreetingOnly(message) == "Hello"

\* text: `Hello ${message}`
EchoText(message) == "Hello " \o message

\* What the tools are called with as `message`.
Messages == {"world", "a b", Absent}

\* analyzeQuery is entered: convertQueryToSourcegraphSyntax runs to its first
\* await, and without a provider logs with console.log before it returns.
AnalyzeEntered(c, llm) ==
    [c EXCEPT !.analysis = "pending",
              !.net = IF llm THEN {"llm"} ELSE {},
              !.stdout = IF llm THEN {} ELSE {"No LLM provider configured"}]

\* Mutant: the handler's error path removes the session of the call.
AfterToolErrorDropsSession(m, id) == MapDelete(m, id)

\* The registry after a handler returned an error response: the handlers
\* return an object and touch neither the Map nor the transport.
AfterToolError(m, id) == m

\* Network calls analyzeQuery starts: convertQueryToSourcegraphSyntax calls
\* the provider when LLM_PROVIDER and an API key are set.
AnalyzeCalls(name, llm) == IF UsesAnalyze(name) /\ llm THEN {"llm"} ELSE {}

\* if (!effectiveUrl || !effectiveToken) of the handlers that have it.
Guarded(name, url, token) == CredChecked(name) /\ ~(url /\ token)

\* A tools/call for `name` reaches its handler, which runs to its first await
\* or to its return.  url, token: SOURCEGRAPH_URL and SOURCEGRAPH_TOKEN are
\* set; llm: LLM_PROVIDER and the provider's key are set.  conn, id: the
\* session the message came in on (NoHandle on the stdio transport).
InvokeTool(name, message, url, token, llm, conn, id) ==
    /\ call.phase \in {"idle", "done"}
    /\ LET started == [NoCall EXCEPT !.name = name, !.conn = conn, !.sid = id,
                                     !.url = url, !.token = token, !.llm = llm]
           \* analyzeQuery(...) is called without await: the handler goes on
           \* with the promise and reads type, query and filters off it
           analyzing == IF UsesAnalyze(name)
                        THEN [AnalyzeEntered(started, llm) EXCEPT !.builtFrom = "promise"]
                        ELSE [started EXCEPT !.builtFrom = "parameters"]
       IN call' =
           IF Guarded(name, url, token)
           THEN [started EXCEPT !.phase = "done", !.cause = "config",
                                !.resp = Response("config", TRUE)]
           ELSE IF Searches(name)
           THEN [analyzing EXCEPT !.phase = "search",
                                  !.net = AnalyzeCalls(name, llm) \cup {"search"}]
           ELSE IF name = "test-nl-search"
           \* queryAnalysis is the promise analyzeQuery returned:
           \* queryAnalysis.repos.length throws inside the try
           THEN [analyzing EXCEPT !.phase = "done", !.cause = "thrown",
                                  !.net = AnalyzeCalls(name, llm),
                                  !.resp = CatchBlock]
           ELSE [started EXCEPT !.phase = "done", !.message = message,
                                !.said = EchoText(message),
                                !.resp = Response("results", FALSE)]
    /\ connections' = IF call'.resp.isError
                      THEN AfterToolError(connections, id) ELSE connections
    /\ last' = [NoEvent EXCEPT !.op = "tool", !.conn = conn, !.sid = id]
    /\ UNCHANGED <<pc, sid, sockOpen, removed, inflight, tr, built>>

\* The awaited search request settles and the handler runs to its return.
SettleSearch(outcome) ==
    /\ call.phase = "search"
    /\ call' = [call EXCEPT !.phase = "done", !.outcome = outcome,
                            !.cause = SearchCause(outcome),
                            !.resp = SearchResponse(outcome)]
    /\ connections' = IF call'.resp.isError
                      THEN AfterToolError(connections, call.sid) ELSE connections
    /\ last' = [NoEvent EXCEPT !.op = "tool", !.conn = call.conn, !.sid = call.sid]
    /\ UNCHANGED <<pc, sid, sockOpen, removed, inflight, tr, built>>

\* The promise of analyzeQuery settles: convertQueryToSourcegraphSyntax has
\* returned (ok) and analyzeQuery logs the converted query with console.log,
\* or it has thrown and the catch block logs with console.error and parses
\* by rule.  Without a provider nothing can throw.
AnalyzeSettles(ok) ==
    /\ call.analysis = "pending"
    /\ ~call.llm => ok
    /\ call' = [call EXCEPT !.analysis = "resolved",
                            !.stdout = IF ok THEN @ \cup {"Converted query"} ELSE @,
                            !.stderr = IF ok THEN @
                                       ELSE @ \cup {"Error during query analysis"}]
    /\ UNCHANGED <<connections, pc, sid, sockOpen, removed, last, inflight, tr, built>>

\* The tools on the stdio transport: one client, no registry.
NextTool ==
    \/ \E name \in Tools, message \in Messages, url \in BOOLEAN, token \in BOOLEAN,
          llm \in BOOLEAN :
           InvokeTool(name, message, url, token, llm, NoHandle, Absent)
    \/ \E o \in SearchOutcomes : SettleSearch(o)
    \/ \E ok \in BOOLEAN : AnalyzeSettles(ok)

\* ------------------------------------------------------------- queries
\* A query string is the sequence of its space-separated words.
TypeClauses == {"type:file", "type:commit", "type:diff"}

Words == {"find", "the", "foo", "type:commit", "count:5"}

Queries == UNION {[1..n -> Words] : n \in 0..MaxQueryLen}

\* query.includes('type:'), /\btype:\w+/.test(query)
HasType(q) == \E i \in 1..Len(q) : q[i] \in TypeClauses

\* The number of type: clauses of a query.
TypeCount(q) == Cardinality({i \in 1..Len(q) : q[i] \in TypeClauses})

\* The completion of the provider, trimmed.
Completion == <<"foo", "type:file">>

\* query.includes('count:'), /\bcount:/.test(query)
HasCount(q) == \E i \in 1..Len(q) : q[i] \in {"count:5", "count:20", "count:all"}

\* The number of count: directives of a query.
CountCount(q) ==
    Cardinality({i \in 1..Len(q) : q[i] \in {"count:5", "count:20", "count:all"}})

\* The `type` parameter of the tools, the defaultType of the routes.
Types == {"file", "commit", "diff"}

\* ---------------------------------------------------------- query builders
\* Mutant: the default count is added before the type.
SearchCodeQueryCountFirst(q, type) ==
    LET counted == IF HasCount(q) THEN q ELSE Append(q, "count:20")
    IN IF HasType(counted) THEN counted ELSE Append(counted, "type:" \o type)

\* search-code: type and count are added if not present.
SearchCodeQuery(q, type) ==
    LET finalQuery == IF HasType(q) THEN q ELSE Append(q, "type:" \o type)
    IN IF HasCount(finalQuery) THEN finalQuery ELSE Append(finalQuery, "count:20")

\* search-diffs: 'type:diff', then the query, then count:20.
SearchDiffsQuery(q) == <<"type:diff">> \o q \o <<"count:20">>

\* search-github-repos: `${query} ${repoFilters} type:${type} count:20`
SearchGithubReposQuery(q, type) ==
    q \o <<"repo:^github\\.com/r$", "type:" \o type, "count:20">>

\* buildFinalQuery of the /search routes; completion: what
\* convertQueryToSourcegraphSyntax returned for a query that is not direct.
buildFinalQuery(q, isDirect, defaultType, completion) ==
    LET sgQuery == IF isDirect THEN q ELSE completion
        typed == IF ~HasType(sgQuery) THEN Append(sgQuery, "type:" \o defaultType)
                 ELSE sgQuery
    IN IF ~HasCount(typed) THEN Append(typed, "count:all") ELSE typed

\* Mutant: the date filter is written before the author filter.
SearchCommitsQueryDateFirst(author, message, after) ==
    <<"type:commit">>
        \o (IF after # Absent THEN <<"after:" \o after>> ELSE <<>>)
        \o (IF author # Absent THEN <<"author:" \o author>> ELSE <<>>)
        \o (IF message # Absent THEN <<"message:" \o message>> ELSE <<>>)
        \o <<"count:20">>

\* search-commits: 'type:commit', the filters that were given, count:20.
SearchCommitsQuery(author, message, after) ==
    <<"type:commit">>
        \o (IF author # Absent THEN <<"author:" \o author>> ELSE <<>>)
        \o (IF message # Absent THEN <<"message:" \o message>> ELSE <<>>)
        \o (IF after # Absent THEN <<"after:" \o after>> ELSE <<>>)
        \o <<"count:20">>

\* switch (type) of search-code and search-github-repos: the template is
\* chosen by the type parameter.
TemplateByParameter(type) == type

\* searchSourcegraph of the /search routes: the template is chosen by the
\* type: clause found in the query.
TemplateByQuery(q) ==
    IF \E i \in 1..Len(q) : q[i] = "type:commit" THEN "commit"
    ELSE IF \E i \in 1..Len(q) : q[i] = "type:diff" THEN "diff"
    ELSE "file"

\* The string a word sequence stands for.
RECURSIVE Join(_)
Join(q) ==
    IF Len(q) = 0 THEN ""
    ELSE IF Len(q) = 1 THEN q[1]
    ELSE q[1] \o " " \o Join(Tail(q))

\* What the provider may answer for one and the same prompt.
Completions == {Completion, <<"foo", "type:commit">>}

Builders == {"search-code", "search-diffs", "search-github-repos", "route"}

NoQuery == [builder |-> "none", query |-> <<>>, isDirect |-> TRUE,
            type |-> "file", author |-> Absent, message |-> Absent,
            after |-> Absent, input |-> <<>>, final |-> <<>>,
            template |-> "none", calls |-> 0, again |-> <<>>]

\* The query type: and count: are injected into: the caller's, or for a route
\* that is not direct, the translator's.
StartQuery(b, completion) ==
    IF b.builder = "search-commits" THEN <<>>
    ELSE IF b.builder = "route" /\ ~b.isDirect THEN completion
    ELSE b.query

\* The query the builder of b hands to the search executor.
FinalQuery(b, completion) ==
    CASE b.builder = "search-code" -> SearchCodeQuery(b.query, b.type)
      [] b.builder = "search-commits" ->
             SearchCommitsQuery(b.author, b.message, b.after)
      [] b.builder = "search-diffs" -> SearchDiffsQuery(b.query)
      [] b.builder = "search-github-repos" -> SearchGithubReposQuery(b.query, b.type)
      [] OTHER -> buildFinalQuery(b.query, b.isDirect, b.type, completion)

\* The GraphQL document sent with it.
Template(b, completion) ==
    CASE b.builder \in {"search-code", "search-github-repos"} ->
             TemplateByParameter(b.type)
      [] b.builder = "search-commits" -> "commit"
      [] b.builder = "search-diffs" -> "diff"
      [] OTHER -> TemplateByQuery(FinalQuery(b, completion))

Finish(b, completion) ==
    [b EXCEPT !.input = StartQuery(b, completion),
              !.final = FinalQuery(b, completion),
              !.template = Template(b, completion),
              !.calls = 1]

\* A search tool or a /search route builds the query it sends and picks the
\* template.  completion: the provider's answer, read by a route whose query
\* is not direct.
BuildQuery(builder, q, type, isDirect, completion) ==
    /\ built.calls = 0
    \* the routes answer 400 to a missing or empty query
    /\ builder = "route" => Len(q) > 0
    /\ built' = Finish([NoQuery EXCEPT
                           !.builder = builder, !.query = q,
                           !.type = IF builder = "search-diffs" THEN "diff" ELSE type,
                           !.isDirect = (builder = "route" => isDirect)],
                       completion)
    /\ UNCHANGED <<connections, pc, sid, sockOpen, removed, last, inflight, call, tr>>

\* search-commits takes no query text, only filters.
BuildCommitsQuery(author, message, after) ==
    /\ built.calls = 0
    /\ built' = Finish([NoQuery EXCEPT
                           !.builder = "search-commits", !.type = "commit",
                           !.author = author, !.message = message,
                           !.after = after],
                       Completion)
    /\ UNCHANGED <<connections, pc, sid, sockOpen, removed, last, inflight, call, tr>>

\* The same tool or route is called a second time with the same parameters.
BuildAgain(completion) ==
    /\ built.calls = 1
    /\ built' = [built EXCEPT !.calls = 2, !.again = FinalQuery(built, completion)]
    /\ UNCHANGED <<connections, pc, sid, sockOpen, removed, last, inflight, call, tr>>

NextQuery ==
    \/ \E builder \in Builders, q \in Queries, type \in Types, isDirect \in BOOLEAN,
          completion \in Completions :
           BuildQuery(builder, q, type, isDirect, completion)
    \/ \E author \in {Absent, "jane"}, message \in {Absent, "fix"},
          after \in {Absent, "2023-01-01"} :
           BuildCommitsQuery(author, message, after)
    \/ \E completion \in Completions : BuildAgain(completion)

\* ----------------------------------------- natural-language translator
\* LLM_PROVIDER as found in the environment.
ProviderEnvs == {"unset", "openai", "anthropic", "other"}

\* The two convertQueryToSourcegraphSyntax of the repository: services/llm.ts
\* (compiled in dist/services/llm.js 196-211), and the one of
\* dist/services/llm.js 25-42 with the local fallback.
Builds == {"ts", "fallback"}

\* What the awaited request to the provider comes to.
LlmOutcomes == {"completion", "empty", "rejects", "malformed"}

\* .replace(/^(show me|find|search for|look for|get|retrieve)\s+/i, '')
DropLeadingFiller(q) ==
    IF Len(q) > 1 /\ q[1] = "find" THEN Tail(q) ELSE q

\* .replace(/\b(all|the|those|any)\s+/g, '')
DropArticles(q) ==
    SelectSeq(q, LAMBDA w : w # "the") \o
        (IF Len(q) > 0 /\ q[Len(q)] = "the" THEN <<"the">> ELSE <<>>)

\* fallbackQueryConversion: strip the filler, default to type:file.
fallbackQueryConversion(q) ==
    LET cleanedQuery == DropArticles(DropLeadingFiller(q))
    IN IF ~HasType(cleanedQuery) THEN Append(cleanedQuery, "type:file")
       ELSE cleanedQuery

NoTranslation == [build |-> "none", provider |-> "unset", openAiKey |-> FALSE,
                  anthropicKey |-> FALSE, query |-> <<>>, phase |-> "idle",
                  cause |-> "none", threw |-> FALSE, value |-> <<>>]

\* The provider call failed for `cause`: services/llm.ts lets the exception
\* go to the caller, the try/catch of dist/services/llm.js 25-42 returns the
\* fallback.
ProviderFailed(t, cause) ==
    IF t.build = "ts"
    THEN [t EXCEPT !.phase = "done", !.cause = cause, !.threw = TRUE]
    ELSE [t EXCEPT !.phase = "done", !.cause = cause,
                   !.value = fallbackQueryConversion(t.query)]

\* convertQueryToSourcegraphSyntax up to its return or to the await of the
\* request to the provider (one translation is followed; translations share
\* no state).
ConvertQuery(build, provider, openAiKey, anthropicKey, q) ==
    /\ tr.phase = "idle"
    /\ LET t == [NoTranslation EXCEPT !.build = build, !.provider = provider,
                                      !.openAiKey = openAiKey,
                                      !.anthropicKey = anthropicKey, !.query = q]
           \* const provider = process.env.LLM_PROVIDER || 'openai'
           p == IF provider = "unset" THEN "openai" ELSE provider
           hasKey == IF p = "openai" THEN openAiKey ELSE anthropicKey
       IN tr' =
           IF build = "ts" /\ (provider = "unset" \/ (~openAiKey /\ ~anthropicKey))
           THEN [t EXCEPT !.phase = "done", !.value = q]
           ELSE IF p = "other" THEN ProviderFailed(t, "unsupported")
           ELSE IF ~hasKey THEN ProviderFailed(t, "missingKey")
           ELSE [t EXCEPT !.phase = "llm"]
    /\ UNCHANGED <<connections, pc, sid, sockOpen, removed, last, inflight, call, built>>

\* The request to the provider settles.  services/llm.ts returns the trimmed
\* completion, the empty one included; dist/services/llm.js 70-73 throws on it.
LlmSettles(outcome) ==
    /\ tr.phase = "llm"
    /\ tr' =
         CASE outcome = "completion" ->
                [tr EXCEPT !.phase = "done", !.value = Completion]
           [] outcome = "empty" /\ tr.build = "ts" ->
                [tr EXCEPT !.phase = "done", !.cause = "empty", !.value = <<>>]
           [] outcome = "empty" /\ tr.build # "ts" -> ProviderFailed(tr, "empty")
           [] outcome = "rejects" -> ProviderFailed(tr, "network")
           [] OTHER -> ProviderFailed(tr, "malformed")
    /\ UNCHANGED <<connections, pc, sid, sockOpen, removed, last, inflight, call, built>>

NextLlm ==
    \/ \E build \in Builds, provider \in ProviderEnvs, openAiKey \in BOOLEAN,
          anthropicKey \in BOOLEAN, q \in Queries :
           ConvertQuery(build, provider, openAiKey, anthropicKey, q)
    \/ \E o \in LlmOutcomes : LlmSettles(o)

\* ------------------------------------------------------------ the system
Init ==
    /\ connections = <<>>
    /\ pc = [c \in Conns |-> "idle"]
    /\ sid = [c \in Conns |-> Absent]
    /\ sockOpen = [c \in Conns |-> FALSE]
    /\ removed = {}
    /\ last = NoEvent
    /\ inflight = [c \in Conns |-> 0]
    /\ call = NoCall
    /\ tr = NoTranslation
    /\ built = NoQuery

Next ==
    \/ \E c \in Conns, r \in {Absent} \cup ClientIds :
           OpenSession(c, r) /\ UNCHANGED auxVars
    \/ \E c \in Conns : ConnectSuccess(c) /\ UNCHANGED auxVars
    \/ \E c \in Conns, hs \in BOOLEAN : ConnectFailure(c, hs) /\ UNCHANGED auxVars
    \/ \E c \in Conns : ClientDisconnect(c) /\ UNCHANGED auxVars
    \/ \E b \in BodyIds, q \in QueryIds, r \in HandleResults :
           RouteMessage(b, q, r) /\ UNCHANGED auxVars

Spec == Init /\ [][Next]_vars

\* The same handlers when server.connect settles before the event loop turns
\* (the attached transport does no I/O wait): no request, close event or
\* message is handled between the call and the end of the await.
NoAwaitPending == \A c \in Conns : pc[c] # "connecting"

NextPrompt ==
    \/ \E c \in Conns, r \in {Absent} \cup ClientIds :
           NoAwaitPending /\ OpenSession(c, r) /\ UNCHANGED auxVars
    \/ \E c \in Conns : ConnectSuccess(c) /\ UNCHANGED auxVars
    \/ \E c \in Conns, hs \in BOOLEAN : ConnectFailure(c, hs) /\ UNCHANGED auxVars
    \/ \E c \in Conns : NoAwaitPending /\ ClientDisconnect(c) /\ UNCHANGED auxVars
    \/ \E b \in BodyIds, q \in QueryIds, r \in HandleResults :
           NoAwaitPending /\ RouteMessage(b, q, r) /\ UNCHANGED auxVars

SpecPrompt == Init /\ [][NextPrompt]_vars

\* ------------------------------------------- POST /messages, step by step
\* The POST /messages handler up to its suspension at
\* `await transport.handlePostMessage(req, res)`: the 400 answer, or the call
\* on the handle, which is then pending.  Nothing in the handler looks at
\* whether an earlier call on the same handle is still pending.
BeginMessage(bodyConnectionId, querySessionId) ==
    LET id == ResolveSessionId(bodyConnectionId, querySessionId)
        o  == RouteOutcome(connections, id)
    IN /\ o.target # NoHandle => inflight[o.target] < MaxInflight
       /\ inflight' = IF o.target = NoHandle THEN inflight
                      ELSE [inflight EXCEPT ![o.target] = @ + 1]
       /\ last' = [NoEvent EXCEPT !.op = IF o.target = NoHandle THEN "route" ELSE "begin",
                                  !.sid = id, !.status = o.status,
                                  !.error = o.error, !.target = o.target]
       /\ UNCHANGED <<connections, pc, sid, sockOpen, removed>>

\* A pending handlePostMessage call on handle c settles; the handler resumes
\* and leaves the try or runs the catch block.
EndMessage(c, result) ==
    /\ inflight[c] > 0
    /\ inflight' = [inflight EXCEPT ![c] = @ - 1]
    /\ LET o == HandledStatus([status |-> 0, error |-> "", target |-> c], result)
       IN last' = [NoEvent EXCEPT !.op = "end", !.status = o.status,
                                  !.error = o.error, !.target = c,
                                  !.threw = (result # "ok"),
                                  !.sent = (result = "throwsSent")]
    /\ UNCHANGED <<connections, pc, sid, sockOpen, removed>>

\* Sessions open and close while messages are being handled.
NextMsg ==
    \/ \E c \in Conns, r \in {Absent} \cup ClientIds :
           OpenSession(c, r) /\ UNCHANGED auxVars
    \/ \E c \in Conns : ConnectSuccess(c) /\ UNCHANGED auxVars
    \/ \E c \in Conns : ClientDisconnect(c) /\ UNCHANGED auxVars
    \/ \E b \in BodyIds, q \in QueryIds : BeginMessage(b, q) /\ UNCHANGED <<call, tr, built>>
    \/ \E c \in Conns, r \in HandleResults : EndMessage(c, r) /\ UNCHANGED <<call, tr, built>>

SpecMsg == Init /\ [][NextMsg]_vars

SpecTool == Init /\ [][NextTool]_vars

SpecLlm == Init /\ [][NextLlm]_vars

SpecQuery == Init /\ [][NextQuery]_vars

\* A POST /messages carrying a tools/call is forwarded to its handle, whose
\* attached server runs the tool's handler.
CallToolOnSession(querySessionId, name, url, token) ==
    LET o == RouteOutcome(connections, querySessionId)
    IN /\ o.target # NoHandle
       /\ pc[o.target] = "connected"
       /\ InvokeTool(name, Absent, url, token, FALSE, o.target, querySessionId)

\* The tools on the SSE transport: sessions open and close, messages are
\* routed, and tool calls come in on the sessions.
NextSessionTool ==
    \/ \E c \in Conns, r \in {Absent, "a"} :
           OpenSession(c, r) /\ UNCHANGED auxVars
    \/ \E c \in Conns : ConnectSuccess(c) /\ UNCHANGED auxVars
    \/ \E c \in Conns : ClientDisconnect(c) /\ UNCHANGED auxVars
    \/ \E q \in {Absent} \cup Issued :
           RouteMessage(Absent, q, "ok") /\ UNCHANGED auxVars
    \/ \E q \in {Absent} \cup Issued, cred \in BOOLEAN :
           CallToolOnSession(q, "search-code", cred, cred)
    \/ \E o \in SearchOutcomes : SettleSearch(o)

SpecSessionTool == Init /\ [][NextSessionTool]_vars

\* ------------------------------------------------------- session notions
\* The handle of c is stored in the registry (under whatever key).
InRegistry(c) == \E i \in 1..Len(connections) : connections[i].h = c

\* The underlying HTTP connection of c is open.
ConnOpen(c) == Arrived(c) /\ sockOpen[c]

OpenConns == {c \in Conns : ConnOpen(c)}

ConnClosed(c) == Arrived(c) /\ ~sockOpen[c]

\* NEW: the request has not arrived; OPEN: registered, connection open;
\* CLOSED: the connection has closed.  (The handler stores the handle in the
\* same step that builds it, so OPENING is never observable.)
SessionState(c) ==
    IF ~Arrived(c) THEN "NEW" ELSE IF sockOpen[c] THEN "OPEN" ELSE "CLOSED"

Routed == last.op = "route"

\* ---------------------------------------------------------------- claims

\* C1: a POST /messages carrying identifier id that immediately follows the
\* GET /sse that registered a session under id is forwarded to the transport
\* handle created for that session, whatever else the registry holds.
C1_RouteAfterOpenHitsOwnHandle ==
    (Routed /\ last.afterOpen # NoHandle /\ last.sid = sid[last.afterOpen])
        => last.target = last.afterOpen

\* C1 witness: such a POST was forwarded to the new handle while another
\* session's handle is the first entry of the registry.
C1_Witness ==
    /\ Routed /\ last.afterOpen # NoHandle /\ last.sid = sid[last.afterOpen]
    /\ MapSize(connections) >= 2
    /\ MapFirst(connections) # last.afterOpen
    /\ last.target = last.afterOpen

\* C2: once a close listener has removed the entry of identifier id, no
\* POST /messages carrying id is forwarded to the handle that was removed.
C2_NoRouteToRemovedHandle ==
    /\ \A h \in removed : ~InRegistry(h)
    /\ Routed => \A h \in removed : sid[h] = last.sid => last.target # h

\* C2 witness: a POST carrying the identifier of a removed handle was
\* forwarded, to another session's handle.
C2_Witness ==
    /\ Routed /\ last.target # NoHandle
    /\ \E h \in removed : sid[h] = last.sid /\ last.target # h

\* C3 (as claimed): a handle is in the registry if and only if its HTTP
\* connection is open and attaching it has not failed.
C3_RegisteredIffOpen ==
    \A c \in Conns : InRegistry(c) <=> (ConnOpen(c) /\ pc[c] # "failed")

\* C4 (as claimed): after server.connect has thrown for a session its
\* identifier has no registry entry and no POST is forwarded to its handle.
C4_FailedConnectNotRegistered ==
    /\ \A c \in Conns : pc[c] = "failed" => ~MapHas(connections, sid[c])
    /\ (Routed /\ last.target # NoHandle) => pc[last.target] # "failed"

\* C5 (as claimed): a POST without identifier, issued while some connection
\* is open, is forwarded to a handle whose connection is open, and to the
\* only open one when there is exactly one.
C5_NoIdRoutesToOpenSession ==
    (Routed /\ last.sid = Absent /\ OpenConns # {})
        => /\ last.target \in OpenConns
           /\ Cardinality(OpenConns) = 1 => OpenConns = {last.target}

\* C6: with the registry empty every POST /messages is answered 400
\* "No active connections" and handlePostMessage is called on no handle.
C6_EmptyRegistryFails ==
    (Routed /\ MapSize(connections) = 0)
        => /\ last.status = 400
           /\ last.error = "No active connections"
           /\ last.target = NoHandle

\* C6 witness: a POST carrying an identifier was refused right after the
\* only registered session was closed and removed.
C6_Witness ==
    /\ Routed /\ MapSize(connections) = 0
    /\ last.sid # Absent
    /\ removed # {}
    /\ last.status = 400

\* C7 (as claimed): with exactly one connection open, a POST whose
\* identifier matches no open session is forwarded to that session.
C7_MismatchFallsBackToOnlyOpen ==
    (/\ Routed /\ last.sid # Absent
     /\ Cardinality(OpenConns) = 1
     /\ \A c \in OpenConns : sid[c] # last.sid)
        => OpenConns = {last.target}

\* C8 (as claimed): no two open connections have the same sessionId.
C8_OpenIdsUnique ==
    \A c, d \in OpenConns : c # d => sid[c] # sid[d]

\* Identifiers of closed sessions that no open session carries, and
\* identifiers no GET /sse has been given or minted.
ClosedIds == {sid[c] : c \in {d \in Conns : ConnClosed(d)}}
                 \ {sid[c] : c \in OpenConns}

NeverIds == (ClientIds \cup {GenId(c) : c \in Conns}) \ Issued

\* C9 (as claimed): routing by the identifier of a closed session has the
\* outcome of routing by an identifier that was never opened.
C9_ClosedIdLikeUnknownId ==
    \A i \in ClosedIds, j \in NeverIds :
        RouteOutcome(connections, i) = RouteOutcome(connections, j)

\* C10 (as claimed): a session becomes OPEN only once registered, never
\* leaves CLOSED, and once CLOSED has no registry entry and gets no POST.
C10_Step(c) ==
    /\ (SessionState(c) # "OPEN" /\ SessionState(c)' = "OPEN")
           => (SessionState(c) = "NEW" /\ InRegistry(c)')
    /\ SessionState(c) = "CLOSED" => SessionState(c)' = "CLOSED"
    /\ SessionState(c)' = "CLOSED"
           => (~InRegistry(c)' /\ (Routed' => last'.target # c))

C10_SessionLifecycle == [][\A c \in Conns : C10_Step(c)]_vars

\* C11 (as claimed): once a connection has dropped and its GET /sse handler
\* has nothing left to run, its handle is out of the registry, and a handle
\* that was removed is never registered again.
C11_DroppedConnectionRemoved ==
    /\ \A c \in Conns : (ConnClosed(c) /\ pc[c] # "connecting") => ~InRegistry(c)
    /\ \A h \in removed : ~InRegistry(h)

C14_NoRouteToUnattachedHandle ==
    (Routed /\ last.target # NoHandle) => pc[last.target] # "connecting"

\* C14 (amended): every registry entry, and every handle a POST is forwarded
\* to, is a transport object that has been constructed.
C14_RegistryHoldsConstructedHandles ==
    /\ \A i \in 1..Len(connections) :
           connections[i].h \in Conns /\ Arrived(connections[i].h)
    /\ (Routed /\ last.status # 400)
           => (last.target \in Conns /\ Arrived(last.target))

\* C14 witness: a POST was forwarded to a constructed handle whose
\* server.connect is still pending.
C14_Witness ==
    /\ Routed /\ last.target # NoHandle
    /\ pc[last.target] = "connecting"

\* C15: when the close listener runs, its identifier has no entry afterwards;
\* if it had none before, the registry is unchanged; running it again
\* changes nothing.
C15_Step ==
    (last'.op = "close" /\ pc'[last'.conn] = "closed")
        => /\ ~MapHas(connections', last'.sid)
           /\ ~MapHas(connections, last'.sid) => connections' = connections
           /\ CloseSession(connections', last'.sid) = connections'

C15_CloseSessionIdempotent == [][C15_Step]_vars

\* C15 witness: the listener ran for an identifier that had no entry, with
\* another session still registered.
C15_Witness ==
    /\ last.op = "close" /\ pc[last.conn] = "closed"
    /\ last.target = NoHandle
    /\ \E c \in Conns : c # last.conn /\ sid[c] = last.sid /\ pc[c] = "closed"

\* C13: within one session at most one message is being handled at any time.
C13_OneMessageAtATime == \A c \in Conns : inflight[c] <= 1

\* C16: no tool handler lets an exception escape; a failed invocation (missing
\* configuration, upstream error, thrown exception) returns exactly one text
\* block with isError true and no result content, a successful one returns
\* one text block without isError.
C16_ToolFailuresBecomeErrorResponses ==
    call.phase = "done" =>
        /\ ~call.resp.escaped
        /\ call.resp.blocks = 1
        /\ call.resp.isError <=> call.cause # "none"
        /\ call.resp.isError => call.resp.text # "results"
        /\ ~call.resp.isError => call.resp.text = "results"

\* A search whose request was rejected, or whose body could not be formatted,
\* has returned.
C16_Witness ==
    /\ call.phase = "done"
    /\ call.name = "search-code"
    /\ call.outcome \in {"rejects", "malformed"}
    /\ call.resp.isError

\* A tool handler has just returned an error response.
ToolErrorReturned == last.op = "tool" /\ call.phase = "done" /\ call.resp.isError

\* The step in which a handler returns an error response changes neither the
\* registry nor any connection, so every identifier is routed as before it.
C17_Step ==
    ToolErrorReturned' =>
        /\ connections' = connections
        /\ pc' = pc
        /\ sockOpen' = sockOpen
        /\ \A id \in {Absent} \cup ClientIds \cup Issued :
               RouteOutcome(connections', id) = RouteOutcome(connections, id)

\* C17: a tool-level error during a call on a session leaves the session open
\* and registered, and a subsequent message for the session is forwarded to
\* the same handle: the error step changes nothing a route depends on, and a
\* call refused for missing configuration leaves its identifier routed to
\* the handle the call came in on.
C17_ToolErrorKeepsSession ==
    /\ [][C17_Step]_vars
    /\ [](ToolErrorReturned /\ call.cause = "config" =>
              /\ RouteOutcome(connections, call.sid).target = call.conn
              /\ pc[call.conn] = "connected")

\* After a search on a session failed upstream, a message for the session's
\* identifier was forwarded to the handle the call came in on.
C17_Witness ==
    /\ call.phase = "done"
    /\ call.cause \in {"upstream", "thrown"}
    /\ call.resp.isError
    /\ Routed
    /\ last.sid = call.sid
    /\ last.sid # Absent
    /\ last.target = call.conn
    /\ last.status = 0

\* The invoked tool is one of the search tools (it has "search" in its name).
IsSearchTool(name) == name \notin {"echo", "get-definition"}

\* C18: a search tool invoked while SOURCEGRAPH_URL or SOURCEGRAPH_TOKEN is
\* unset returns the configuration error with isError true and starts no
\* network call, neither to the search platform nor to an LLM provider.
C18_NoCredentialsNoNetwork ==
    (call.phase # "idle" /\ IsSearchTool(call.name) /\ ~(call.url /\ call.token)) =>
        /\ call.phase = "done"
        /\ call.resp.isError
        /\ call.resp.text = "config"
        /\ call.net = {}

\* C19: when the provider call throws (missing key, network failure, empty
\* completion, unsupported provider), the translator returns a non-empty
\* string to its caller and no exception.
C19_TranslatorFallsBack ==
    (tr.phase = "done" /\ tr.cause # "none") => (~tr.threw /\ tr.value # <<>>)

\* C20: a query that already contains a type: clause gets no second one: the
\* final query of every search tool and route has no type: clause beyond
\* those of the query it was built from.
C20_NoSecondTypeClause ==
    (built.calls > 0 /\ HasType(built.input)) =>
        TypeCount(built.final) = TypeCount(built.input)

\* C21: search-code with query "foo" and type "file" hands the search
\* executor the query "foo type:file count:20".
C21_SearchCodeFooQuery ==
    (built.calls > 0 /\ built.builder = "search-code"
        /\ Join(built.query) = "foo" /\ built.type = "file") =>
        Join(built.final) = "foo type:file count:20"

C21_Witness ==
    /\ built.calls > 0
    /\ built.builder = "search-code"
    /\ built.query = <<"foo">>
    /\ built.type = "file"

\* C22: search-commits with author "jane", after "2023-01-01" and no message
\* builds the query "type:commit author:jane after:2023-01-01 count:20".
C22_SearchCommitsJaneQuery ==
    (built.calls > 0 /\ built.builder = "search-commits"
        /\ built.author = "jane" /\ built.after = "2023-01-01"
        /\ built.message = Absent) =>
        Join(built.final) = "type:commit author:jane after:2023-01-01 count:20"

C22_Witness ==
    /\ built.calls > 0
    /\ built.builder = "search-commits"
    /\ built.author = "jane"
    /\ built.after = "2023-01-01"
    /\ built.message = Absent

\* C23: a count: directive is appended only when the query has none: every
\* final query has exactly one, count:20 by default, and the caller's count:N
\* is kept as the only one.
C23_ExactlyOneCount ==
    (built.calls > 0 /\ CountCount(built.input) <= 1) =>
        /\ CountCount(built.final) = 1
        /\ \A i \in 1..Len(built.input) :
               built.input[i] = "count:5" =>
                   \E j \in 1..Len(built.final) : built.final[j] = "count:5"
        /\ ~HasCount(built.input) =>
               \E j \in 1..Len(built.final) : built.final[j] = "count:20"

\* C24: a second call with the same parameters yields the same query: the
\* result depends on the parameters only.
C24_SameInputSameQuery == built.calls = 2 => built.again = built.final

\* C28: the template search-code sends is the one of the type: clause of its
\* final query, also when the caller's query carries a type: clause of its own.
C28_TemplateMatchesTypeClause ==
    (built.calls > 0 /\ built.builder = "search-code") =>
        \E i \in 1..Len(built.final) : built.final[i] = "type:" \o built.template

\* C25: on the STDIO transport nothing but protocol messages is written to
\* standard output: every diagnostic line of a tool invocation goes to
\* standard error.
C25_NoDiagnosticsOnStdout == call.stdout = {}

\* C26: echo returns one text block whose text is "Hello " followed by the
\* message, so it contains the message; for "world" it is "Hello world".
C26_EchoContainsMessage ==
    (call.phase = "done" /\ call.name = "echo") =>
        /\ call.resp.blocks = 1
        /\ ~call.resp.isError
        /\ \E prefix \in {"", "Hello "} : call.said = prefix \o call.message
        /\ call.message = "world" => call.said = "Hello world"

C26_Witness ==
    call.phase = "done" /\ call.name = "echo" /\ call.message = "world"

\* C30: naturalLanguageSearch and test-nl-search build the query they send
\* after analyzeQuery has completed, from its resolved result.
C30_QueryBuiltFromAnalysis ==
    (UsesAnalyze(call.name) /\ call.builtFrom # "none") => call.builtFrom = "result"

\* A close of one connection leaves the entry of every other connection, and
\* where its identifier is routed, as they were.
C27_Step ==
    (last'.op = "close" /\ last' # last) =>
        \A d \in Conns \ {last'.conn} :
            InRegistry(d) =>
                /\ InRegistry(d)'
                /\ RouteOutcome(connections', sid[d]) = RouteOutcome(connections, sid[d])

\* C27: closing one connection removes only the entry created for it: every
\* other open connection, one opened later under the same client-supplied
\* sessionId included, keeps its entry and its routing.
C27_CloseRemovesOwnEntryOnly == [][C27_Step]_vars

\* C29: dist/http-server.js and http-server.ts route alike: for every registry
\* state and every POST /messages (any query sessionId, any body
\* connectionId) both pick the same handle or fail with the same status.
C29_DistRoutesLikeSource ==
    \A b \in BodyIds, q \in QueryIds :
        RouteOutcome(connections, ResolveSessionId(b, q))
            = RouteOutcome(connections, ResolveSessionIdTs(b, q))

====
